---- MODULE Spec2Model ----
(***************************************************************************)
(* A model of the multi-agent research pipeline of the art-turner-ag       *)
(* submission: TopicSplitterAgent.run (JSON parsing of the LLM response),  *)
(* ResearcherAgent.run (one search call, then one LLM call) and            *)
(* ResearchWorkflow.run (split, thread-pool fan-out, as_completed loop,    *)
(* synthesis, progress reporting).                                         *)
(***************************************************************************)
EXTENDS Naturals, Integers, Sequences, FiniteSets, TLC

(***************************************************************************)
(* Bounds of the model.                                                    *)
(***************************************************************************)
\* longest list of a generated JSON document
MaxList == 3
\* most members of a generated JSON object
MaxKeys == 2
\* longest arbitrary (mostly malformed) token sequence tried as a body
MaxBodyLen == 4
\* most sub-topics in a response body handed to a workflow run
MaxSubtopics == 3
\* the longest query, title and snippet (in characters) and the longest host
\* (in pieces) given to the source curator's score function
MaxQueryLen == 3
MaxTitleLen == 2
MaxSnippetLen == 1
MaxHostLen == 3
\* the longest list of hits given to curate_sources, and the largest top_n
MaxHits == 3
MaxTopN == 3
\* the most tool-call rounds the model asks of ResearchAgent.research
MaxToolRounds == 2
\* most tool calls in one answer of the LLM
MaxToolCalls == 2

(***************************************************************************)
(* Python values produced by json.loads.  Every value is a record of the   *)
(* same shape: t is the Python type, s the text of a str (or the key of a  *)
(* dict item), items the elements of a list or the items of a dict in      *)
(* insertion order.                                                        *)
(***************************************************************************)
JStr(s) == [t |-> "str", s |-> s, items |-> <<>>]
JNum == [t |-> "int", s |-> "0", items |-> <<>>]
JNone == [t |-> "none", s |-> "", items |-> <<>>]
JList(xs) == [t |-> "list", s |-> "", items |-> xs]
JItem(key, v) == [t |-> "item", s |-> key, items |-> <<v>>]
JDict(ps) == [t |-> "dict", s |-> "", items |-> ps]

\* the str values of the model, and the characters each consists of
Strs == {"A", "B", "AB"}
Chars(s) == CASE s = "A" -> <<"A">>
              [] s = "B" -> <<"B">>
              [] s = "AB" -> <<"A", "B">>
              [] OTHER -> <<>>

(***************************************************************************)
(* JSON text.  A body is a sequence of lexical tokens; joining the tokens  *)
(* gives the text of the response body.                                    *)
(***************************************************************************)
Quote(s) == CASE s = "A" -> "\"A\""
              [] s = "B" -> "\"B\""
              [] s = "AB" -> "\"AB\""
              [] OTHER -> "\"\""
StrToks == {Quote(s) : s \in Strs}
Unquote(tk) == CHOOSE s \in Strs : Quote(s) = tk
NumTok == "0"
JunkTok == "not"
Tokens == {"[", "]", "{", "}", ",", ":", NumTok, JunkTok} \cup StrToks

\* dict[key] = val: a new key is appended, an old key keeps its position
DictPut(ps, key, v) ==
    IF \E i \in 1..Len(ps) : ps[i].s = key
    THEN [i \in 1..Len(ps) |-> IF ps[i].s = key THEN JItem(key, v) ELSE ps[i]]
    ELSE Append(ps, JItem(key, v))

ParseFail == [ok |-> FALSE, val |-> JNone, next |-> 0]
ParseOk(v, n) == [ok |-> TRUE, val |-> v, next |-> n]

RECURSIVE ParseValue(_, _), ParseElems(_, _, _), ParseMembers(_, _, _)
\* the JSON value starting at token i
ParseValue(toks, i) ==
    IF i > Len(toks) THEN ParseFail
    ELSE IF toks[i] \in StrToks THEN ParseOk(JStr(Unquote(toks[i])), i + 1)
    ELSE IF toks[i] = NumTok THEN ParseOk(JNum, i + 1)
    ELSE IF toks[i] = "["
         THEN IF i + 1 <= Len(toks) /\ toks[i + 1] = "]"
              THEN ParseOk(JList(<<>>), i + 2)
              ELSE ParseElems(toks, i + 1, <<>>)
    ELSE IF toks[i] = "{"
         THEN IF i + 1 <= Len(toks) /\ toks[i + 1] = "}"
              THEN ParseOk(JDict(<<>>), i + 2)
              ELSE ParseMembers(toks, i + 1, <<>>)
    ELSE ParseFail
\* the elements of an array from token i on, acc the elements read so far
ParseElems(toks, i, acc) ==
    LET r == ParseValue(toks, i) IN
    IF ~r.ok \/ r.next > Len(toks) THEN ParseFail
    ELSE IF toks[r.next] = "," THEN ParseElems(toks, r.next + 1, Append(acc, r.val))
    ELSE IF toks[r.next] = "]" THEN ParseOk(JList(Append(acc, r.val)), r.next + 1)
    ELSE ParseFail
\* the members of an object from token i on, acc the items read so far
ParseMembers(toks, i, acc) ==
    IF i + 1 > Len(toks) \/ toks[i] \notin StrToks \/ toks[i + 1] # ":" THEN ParseFail
    ELSE LET r == ParseValue(toks, i + 2) IN
         IF ~r.ok \/ r.next > Len(toks) THEN ParseFail
         ELSE IF toks[r.next] = ","
              THEN ParseMembers(toks, r.next + 1, DictPut(acc, Unquote(toks[i]), r.val))
         ELSE IF toks[r.next] = "}"
              THEN ParseOk(JDict(DictPut(acc, Unquote(toks[i]), r.val)), r.next + 1)
         ELSE ParseFail

\* json.loads(content): ok is FALSE when it raises json.JSONDecodeError
JsonLoads(toks) ==
    LET r == ParseValue(toks, 1) IN
    IF r.ok /\ r.next = Len(toks) + 1
    THEN [ok |-> TRUE, val |-> r.val]
    ELSE [ok |-> FALSE, val |-> JNone]

(***************************************************************************)
(* TopicSplitterAgent.run, from the response body on (lines 22-36).        *)
(***************************************************************************)
IsList(v) == v.t = "list"
HasListValue(d) == \E i \in 1..Len(d.items) : IsList(d.items[i].items[1])
\* the for loop of lines 28-30: the first value that is a list
FirstListValue(d) ==
    LET i == CHOOSE j \in 1..Len(d.items) :
                 /\ IsList(d.items[j].items[1])
                 /\ \A h \in 1..(j - 1) : ~IsList(d.items[h].items[1])
    IN d.items[i].items[1]
\* line 33: list(subtopics.values())[0] if subtopics else []
DictFallback(d) == IF d.items # <<>> THEN d.items[1].items[1] ELSE JList(<<>>)

\* the except clause of lines 35-36
OnDecodeError == [raised |-> FALSE, val |-> JList(<<>>)]

\* what run returns for a response body: raised is TRUE when it raises
SplitterParseWrong(content) ==
    LET r == JsonLoads(content) IN
    IF ~r.ok THEN OnDecodeError
    ELSE IF r.val.t = "dict" /\ r.val.items # <<>>
         THEN [raised |-> FALSE, val |-> r.val.items[1].items[1]]
    ELSE IF r.val.t = "dict" THEN [raised |-> FALSE, val |-> JList(<<>>)]
    ELSE [raised |-> FALSE, val |-> r.val]
SplitterParse(content) ==
    LET r == JsonLoads(content) IN
    IF ~r.ok THEN OnDecodeError
    ELSE IF r.val.t = "dict"
         THEN IF HasListValue(r.val)
              THEN [raised |-> FALSE, val |-> FirstListValue(r.val)]
              ELSE [raised |-> FALSE, val |-> DictFallback(r.val)]
    ELSE [raised |-> FALSE, val |-> r.val]

(***************************************************************************)
(* The response bodies tried: the JSON text of generated documents, and    *)
(* every token sequence up to MaxBodyLen.                                  *)
(***************************************************************************)
SeqsUpTo(S, n) == UNION {[1..len -> S] : len \in 0..n}

RECURSIVE Render(_), RenderFrom(_, _, _)
\* the JSON text of a value (no whitespace)
Render(v) ==
    CASE v.t = "str" -> <<Quote(v.s)>>
      [] v.t = "int" -> <<NumTok>>
      [] v.t = "list" -> <<"[">> \o RenderFrom(v.items, 1, FALSE) \o <<"]">>
      [] v.t = "dict" -> <<"{">> \o RenderFrom(v.items, 1, TRUE) \o <<"}">>
      [] OTHER -> <<JunkTok>>
RenderFrom(xs, i, members) ==
    IF i > Len(xs) THEN <<>>
    ELSE (IF i > 1 THEN <<",">> ELSE <<>>)
         \o (IF members THEN <<Quote(xs[i].s), ":">> \o Render(xs[i].items[1])
             ELSE Render(xs[i]))
         \o RenderFrom(xs, i + 1, members)

Atoms == {JStr(s) : s \in Strs} \cup {JNum}
NestedList == JList(<<JStr("A")>>)
NestedDict == JDict(<<JItem("A", JNum)>>)
DocLists == {JList(xs) : xs \in SeqsUpTo(Atoms \cup {NestedList}, MaxList)}
DocValues == Atoms \cup {NestedDict} \cup {JList(xs) : xs \in SeqsUpTo(Atoms, 1)}
DocItems == {JItem(key, v) : key \in Strs, v \in DocValues}
DocDicts == {JDict(ps) : ps \in {qs \in SeqsUpTo(DocItems, MaxKeys) :
                 \A i, j \in 1..Len(qs) : i # j => qs[i].s # qs[j].s}}
Documents == Atoms \cup DocLists \cup DocDicts
\* an object that repeats a key, and the three bodies the specification names
RepeatedKey == <<"{", Quote("A"), ":", NumTok, ",", Quote("A"), ":", "[", Quote("B"), "]", "}">>
ExampleList == <<"[", Quote("A"), ",", Quote("B"), ",", Quote("AB"), "]">>
ExampleObject == <<"{", Quote("AB"), ":", "[", Quote("A"), ",", Quote("B"), "]", "}">>
ExampleNotJson == <<JunkTok>>
Bodies == {Render(v) : v \in Documents} \cup SeqsUpTo(Tokens, MaxBodyLen)
              \cup {RepeatedKey, ExampleList, ExampleObject, ExampleNotJson}

(***************************************************************************)
(* The state of one call of ResearchWorkflow.run, its worker threads and   *)
(* the external calls it has made.                                         *)
(***************************************************************************)
VARIABLES
    pc,               \* where the calling thread is in run
    cb,               \* progress_callback: "none" (print) or "sink"
    content,          \* the body of the splitter's LLM response
    subtopics,        \* what self.splitter.run returned
    tasks,            \* the futures submitted, in submission order
    research_findings,\* the dict of line 28, items in insertion order
    yielded,          \* the futures as_completed has yielded
    completed_count,  \* line 32
    progress,         \* the calls of report_progress, in order
    exc,              \* the exception propagating out of run, or "none"
    splitter_calls,   \* calls of self.splitter.run
    synth_args,       \* the findings of each call of self.synthesizer.run
    outcomes,         \* how the splitter's and the synthesizer's LLM call ended
    final_report,     \* what run returns as the report, or "none"
    ready,            \* the futures as_completed will yield next, in order
    finish_order,     \* the futures finished while as_completed has yet to start, in
                      \* the order they finished
    net,              \* how many outbound LLM and search calls have been made
    env,              \* the credentials set in the environment
    flow,             \* which submission's flow runs
    k,                \* the k of curate_sources and web_search
    num,              \* the "num" web_search asked the provider for, or 0
    query,            \* the query of the source curator
    raw,              \* the provider's organic results, then what web_search returned
    top_n,            \* the cap of curate_sources
    sources,          \* ResearchBundle.sources, or "none"
    score,            \* what _score_item returned, in halves, or -1
    tool_calls,       \* the tool calls of the LLM's answer the for loop of
                      \* ResearchAgent.research has yet to execute
    rounds            \* the iterations of its while loop begun so far

\* the state of the other submissions' flows and of the source curator
others == <<env, flow, k, num, query, raw, top_n, sources, score, tool_calls, rounds>>

vars == <<pc, cb, content, subtopics, tasks, research_findings, yielded,
          completed_count, progress, exc, splitter_calls, synth_args,
          outcomes, final_report, ready, finish_order, net, others>>

\* the sub-topics of a list of n distinct-looking entries: "A", "B", "AB" and
\* then the same again, so that a list longer than three repeats a sub-topic
Cycle(n) == [i \in 1..n |-> JStr(<<"A", "B", "AB">>[((i - 1) % 3) + 1])]

\* the response bodies handed to a workflow run: every list of "A" and "B" of
\* up to two entries (repeated sub-topics included), the lists of up to
\* MaxSubtopics entries, a list of three with a repeated sub-topic, lists with
\* an element that is itself a list, objects, and text that is not JSON
RunLists == {JList(xs) : xs \in SeqsUpTo({JStr("A"), JStr("B")}, 2)}
                \cup {JList(Cycle(n)) : n \in 0..MaxSubtopics}
                \cup {JList(<<JStr("A"), JStr("B"), JStr("A")>>),
                      JList(<<NestedList>>),
                      JList(<<JStr("A"), NestedList>>),
                      JList(<<NestedList, JStr("A"), JStr("B")>>)}
RunOthers == {JDict(<<>>), JDict(<<JItem("A", JStr("AB"))>>), JDict(<<JItem("A", JNum)>>),
              JDict(<<JItem("A", NestedDict)>>),
              JDict(<<JItem("A", JNum), JItem("B", JList(<<JStr("A"), JStr("B")>>))>>)}
RunBodies == {Render(v) : v \in RunLists \cup RunOthers} \cup {<<JunkTok>>}

\* iter(v): the elements of a list, the characters of a str, the keys of a dict
Iterable(v) == v.t \in {"list", "str", "dict"}
Iterate(v) ==
    CASE v.t = "list" -> v.items
      [] v.t = "str" -> [i \in 1..Len(Chars(v.s)) |-> JStr(Chars(v.s)[i])]
      [] v.t = "dict" -> [i \in 1..Len(v.items) |-> JStr(v.items[i].s)]
      [] OTHER -> <<>>
\* hash(v) raises TypeError for a list and for a dict
Hashable(v) == v.t \in {"str", "int", "none"}

\* mutant of FindingsPut: the dict is replaced by one holding only the new entry
FindingsPutWrong(fs, key, v) == <<[k |-> key, v |-> v]>>
\* mutant of FindingsPut: storing a new key drops the entries stored before
\* (the dict is created inside the loop)
FindingsPutFresh(fs, key, v) ==
    IF \E i \in 1..Len(fs) : fs[i].k = key
    THEN [i \in 1..Len(fs) |-> IF fs[i].k = key THEN [k |-> key, v |-> v] ELSE fs[i]]
    ELSE <<[k |-> key, v |-> v]>>
\* research_findings[k] = v
FindingsPut(fs, key, v) ==
    IF \E i \in 1..Len(fs) : fs[i].k = key
    THEN [i \in 1..Len(fs) |-> IF fs[i].k = key THEN [k |-> key, v |-> v] ELSE fs[i]]
    ELSE Append(fs, [k |-> key, v |-> v])
FindingsKeys(fs) == {fs[i].k : i \in 1..Len(fs)}
FindingsGet(fs, key) == fs[CHOOSE i \in 1..Len(fs) : fs[i].k = key].v

\* the text a research step returns, the exception it raises, f"Error: {e}"
NoResult == [kind |-> "none", by |-> 0, msg |-> ""]
Summary(i) == [kind |-> "text", by |-> i, msg |-> "summary"]
Raised(i, m) == [kind |-> "exception", by |-> i, msg |-> m]
ErrorText(e) == [kind |-> "text", by |-> e.by, msg |-> "Error: " \o e.msg]

NewTask(v) == [subtopic |-> v, st |-> "queued", res |-> NoResult, searches |-> 0, llms |-> 0]
Finished(i) == tasks[i].st \in {"done", "failed"}

\* a progress event: step is num/den
Event(m, key, n, d) == [message |-> m, of |-> key, num |-> n, den |-> d, total |-> 3]

(***************************************************************************)
(* report_progress (lines 13-17): the callback is called, or the message   *)
(* printed; a callback may raise, and nothing in run catches that.         *)
(***************************************************************************)
ReportProgress(ev, returns_to, raises_to) ==
    /\ progress' = Append(progress, ev)
    /\ \/ /\ pc' = returns_to
          /\ exc' = exc
       \/ /\ cb = "sink"
          /\ pc' = raises_to
          /\ exc' = "callback"

\* no outbound call made yet, and one more call of a kind
NoCalls == [llm |-> 0, search |-> 0]
Called(kind) == [net EXCEPT ![kind] = @ + 1]

\* the variables of the flows that are not running
Idle ==
    /\ env = {}
    /\ flow = "none"
    /\ k = 0
    /\ num = 0
    /\ query = <<>>
    /\ raw = <<>>
    /\ top_n = 0
    /\ sources = "none"
    /\ score = -1
    /\ tool_calls = <<>>
    /\ rounds = 0

Init ==
    /\ pc = "start"
    /\ cb \in {"none", "sink"}
    /\ content = <<>>
    /\ subtopics = JNone
    /\ tasks = <<>>
    /\ research_findings = <<>>
    /\ yielded = {}
    /\ completed_count = 0
    /\ progress = <<>>
    /\ exc = "none"
    /\ splitter_calls = 0
    /\ synth_args = <<>>
    /\ outcomes = [splitter |-> "none", synthesizer |-> "none"]
    /\ final_report = "none"
    /\ ready = <<>>
    /\ finish_order = <<>>
    /\ net = NoCalls
    /\ Idle

\* line 19
ReportStart ==
    /\ pc = "start"
    /\ ReportProgress(Event("Starting research", JNone, 0, 1), "report_split", "raised")
    /\ UNCHANGED <<cb, content, subtopics, tasks, research_findings, yielded,
                   completed_count, splitter_calls, synth_args, outcomes, final_report, ready,
                   finish_order, net, others>>

\* line 22: the step is the literal 0.1
ReportSplit ==
    /\ pc = "report_split"
    /\ ReportProgress(Event("Splitting topic...", JNone, 1, 10), "split", "raised")
    /\ UNCHANGED <<cb, content, subtopics, tasks, research_findings, yielded,
                   completed_count, splitter_calls, synth_args, outcomes, final_report, ready,
                   finish_order, net, others>>

\* mutant of SplitTopic: a failure of the LLM call is swallowed and the run goes
\* on with no sub-topics
SplitTopicWrong ==
    /\ pc = "split"
    /\ net' = Called("llm")
    /\ splitter_calls' = splitter_calls + 1
    /\ \/ \E body \in RunBodies :
             /\ content' = body
             /\ subtopics' = SplitterParse(body).val
             /\ outcomes' = [outcomes EXCEPT !.splitter = "returned"]
       \/ /\ outcomes' = [outcomes EXCEPT !.splitter = "raised"]
          /\ subtopics' = JList(<<>>)
          /\ content' = content
    /\ pc' = "report_research"
    /\ UNCHANGED <<cb, tasks, research_findings, yielded, completed_count, progress, exc,
                   synth_args, final_report, ready,
                   finish_order, others>>

\* line 23: self.splitter.run(topic); its LLM call may raise
SplitTopic ==
    /\ pc = "split"
    /\ net' = Called("llm")
    /\ splitter_calls' = splitter_calls + 1
    /\ \/ \E body \in RunBodies :
             /\ content' = body
             /\ subtopics' = SplitterParse(body).val
             /\ outcomes' = [outcomes EXCEPT !.splitter = "returned"]
             /\ pc' = IF SplitterParse(body).raised THEN "raised" ELSE "report_research"
             /\ exc' = IF SplitterParse(body).raised THEN "JSONDecodeError" ELSE exc
       \/ /\ outcomes' = [outcomes EXCEPT !.splitter = "raised"]
          /\ pc' = "raised"
          /\ exc' = "splitter"
          /\ UNCHANGED <<content, subtopics>>
    /\ UNCHANGED <<cb, tasks, research_findings, yielded, completed_count, progress,
                   synth_args, final_report, ready,
                   finish_order, others>>

\* line 27
ReportResearch ==
    /\ pc = "report_research"
    /\ ReportProgress(Event("Conducting research...", JNone, 1, 1), "submit", "raised")
    /\ UNCHANGED <<cb, content, subtopics, tasks, research_findings, yielded,
                   completed_count, splitter_calls, synth_args, outcomes, final_report, ready,
                   finish_order, net, others>>

\* mutant of Submit: the pool is sized to the number of sub-topics, and
\* ThreadPoolExecutor(max_workers=0) raises ValueError
SubmitWrong ==
    /\ pc = "submit"
    /\ \/ /\ ~Iterable(subtopics) \/ Iterate(subtopics) = <<>>
          /\ tasks' = tasks
          /\ pc' = "raised"
          /\ exc' = IF Iterable(subtopics) THEN "ValueError" ELSE "TypeError"
       \/ /\ Iterable(subtopics)
          /\ Len(tasks) < Len(Iterate(subtopics))
          /\ tasks' = Append(tasks, NewTask(Iterate(subtopics)[Len(tasks) + 1]))
          /\ pc' = "submit"
          /\ exc' = exc
       \/ /\ Iterable(subtopics)
          /\ Iterate(subtopics) # <<>>
          /\ Len(tasks) = Len(Iterate(subtopics))
          /\ tasks' = tasks
          /\ pc' = "as_completed"
          /\ exc' = exc
    /\ UNCHANGED <<cb, content, subtopics, research_findings, yielded, completed_count,
                   progress, splitter_calls, synth_args, outcomes, final_report, ready,
                   finish_order, net, others>>

\* lines 30-32, one step of the dict comprehension: iterating a value that is
\* not iterable raises TypeError; otherwise the next sub-topic is submitted
\* (the workers run the futures already submitted meanwhile), and after the
\* last one the dict is complete
Submit ==
    /\ pc = "submit"
    /\ \/ /\ ~Iterable(subtopics)
          /\ tasks' = tasks
          /\ pc' = "raised"
          /\ exc' = "TypeError"
       \/ /\ Iterable(subtopics)
          /\ Len(tasks) < Len(Iterate(subtopics))
          /\ tasks' = Append(tasks, NewTask(Iterate(subtopics)[Len(tasks) + 1]))
          /\ pc' = "submit"
          /\ exc' = exc
       \/ /\ Iterable(subtopics)
          /\ Len(tasks) = Len(Iterate(subtopics))
          /\ tasks' = tasks
          /\ pc' = "as_completed"
          /\ exc' = exc
    /\ UNCHANGED <<cb, content, subtopics, research_findings, yielded, completed_count,
                   progress, splitter_calls, synth_args, outcomes, final_report, ready,
                   finish_order, net, others>>

(***************************************************************************)
(* ResearcherAgent.run on a worker thread of the pool.                     *)
(***************************************************************************)
\* a future gets its result or its exception: once as_completed has installed
\* its waiter the future is handed to it, to be yielded after those that
\* finished before
SetResult(i) ==
    /\ finish_order' = IF pc \in {"submit", "as_completed"}
                       THEN Append(finish_order, i) ELSE finish_order
    /\ ready' = IF pc = "collect" THEN Append(ready, i) ELSE ready

\* a worker takes the future off the queue and calls self.tavily.search (line 12)
StartSearch(i) ==
    /\ tasks[i].st = "queued"
    /\ net' = Called("search")
    /\ tasks' = [tasks EXCEPT ![i].st = "searching", ![i].searches = @ + 1]
    /\ UNCHANGED <<pc, cb, content, subtopics, research_findings, yielded, completed_count,
                   progress, exc, splitter_calls, synth_args, outcomes, final_report, ready,
                   finish_order, others>>

\* the search returned: lines 13-28, the LLM call is made
StartSummary(i) ==
    /\ tasks[i].st = "searching"
    /\ net' = Called("llm")
    /\ tasks' = [tasks EXCEPT ![i].st = "summarizing", ![i].llms = @ + 1]
    /\ UNCHANGED <<pc, cb, content, subtopics, research_findings, yielded, completed_count,
                   progress, exc, splitter_calls, synth_args, outcomes, final_report, ready,
                   finish_order, others>>

\* the search raised: the future holds the exception
SearchFails(i) ==
    /\ tasks[i].st = "searching"
    /\ tasks' = [tasks EXCEPT ![i].st = "failed", ![i].res = Raised(i, "search failed")]
    /\ SetResult(i)
    /\ UNCHANGED <<pc, cb, content, subtopics, research_findings, yielded, completed_count,
                   progress, exc, splitter_calls, synth_args, outcomes, final_report, net, others>>

\* line 36: the LLM's text is the result of the future
SummaryReturns(i) ==
    /\ tasks[i].st = "summarizing"
    /\ tasks' = [tasks EXCEPT ![i].st = "done", ![i].res = Summary(i)]
    /\ SetResult(i)
    /\ UNCHANGED <<pc, cb, content, subtopics, research_findings, yielded, completed_count,
                   progress, exc, splitter_calls, synth_args, outcomes, final_report, net, others>>

\* the LLM call raised
SummaryFails(i) ==
    /\ tasks[i].st = "summarizing"
    /\ tasks' = [tasks EXCEPT ![i].st = "failed", ![i].res = Raised(i, "completion failed")]
    /\ SetResult(i)
    /\ UNCHANGED <<pc, cb, content, subtopics, research_findings, yielded, completed_count,
                   progress, exc, splitter_calls, synth_args, outcomes, final_report, net, others>>

(***************************************************************************)
(* The as_completed loop, lines 33-43, on the calling thread.              *)
(***************************************************************************)
\* the orders in which a set of futures can be listed
Orderings(S) ==
    {o \in [1..Cardinality(S) -> S] : \A a, b \in 1..Cardinality(S) : o[a] = o[b] => a = b}

\* line 33, the first step of the as_completed generator: the futures
\* already finished are collected in a set and yielded first, in the order of
\* that set, which is none in particular; the ones that finish later are
\* yielded in the order they finish
AsCompleted ==
    /\ pc = "as_completed"
    /\ ready' \in Orderings({i \in DOMAIN tasks : Finished(i)})
    /\ finish_order' = <<>>
    /\ pc' = "collect"
    /\ UNCHANGED <<cb, content, subtopics, tasks, research_findings, yielded, completed_count,
                   progress, exc, splitter_calls, synth_args, outcomes, final_report, net, others>>

\* mutant of FindingOf: str(e) is stored, without the "Error: " prefix
FindingOfWrong(i) ==
    IF tasks[i].st = "done" THEN tasks[i].res
    ELSE [kind |-> "text", by |-> i, msg |-> tasks[i].res.msg]

\* lines 36-40: what the iteration stores for future i
FindingOf(i) == IF tasks[i].st = "done" THEN tasks[i].res ELSE ErrorText(tasks[i].res)

\* mutant of Collect: no try/except around future.result(), so the exception
\* of a failed research step leaves the loop
CollectWrong(i) ==
    /\ pc = "collect"
    /\ ready # <<>>
    /\ i = Head(ready)
    /\ ready' = Tail(ready)
    /\ yielded' = yielded \cup {i}
    /\ \/ /\ tasks[i].st = "done"
          /\ Hashable(tasks[i].subtopic)
          /\ research_findings' = FindingsPut(research_findings, tasks[i].subtopic, tasks[i].res)
          /\ completed_count' = completed_count + 1
          /\ ReportProgress(Event("Researched", tasks[i].subtopic,
                                  Len(tasks) + completed_count', Len(tasks)),
                            "collect", "unwind")
       \/ /\ tasks[i].st = "failed" \/ ~Hashable(tasks[i].subtopic)
          /\ pc' = "unwind"
          /\ exc' = IF tasks[i].st = "failed" THEN tasks[i].res.msg ELSE "TypeError"
          /\ UNCHANGED <<research_findings, completed_count, progress>>
    /\ UNCHANGED <<cb, content, subtopics, tasks, splitter_calls, synth_args, outcomes,
                   final_report, finish_order, net, others>>

\* mutant of Collect: the progress event is reported before completed_count
\* is incremented
CollectEarlyReport(i) ==
    /\ pc = "collect"
    /\ ready # <<>>
    /\ i = Head(ready)
    /\ ready' = Tail(ready)
    /\ yielded' = yielded \cup {i}
    /\ \/ /\ Hashable(tasks[i].subtopic)
          /\ research_findings' = FindingsPut(research_findings, tasks[i].subtopic, FindingOf(i))
          /\ completed_count' = completed_count + 1
          /\ ReportProgress(Event("Researched", tasks[i].subtopic,
                                  Len(tasks) + completed_count, Len(tasks)),
                            "collect", "unwind")
       \/ /\ ~Hashable(tasks[i].subtopic)
          /\ pc' = "unwind"
          /\ exc' = "TypeError"
          /\ UNCHANGED <<research_findings, completed_count, progress>>
    /\ UNCHANGED <<cb, content, subtopics, tasks, splitter_calls, synth_args, outcomes,
                   final_report, finish_order, net, others>>

\* one iteration, for the next future as_completed yields.  Storing under an
\* unhashable key raises TypeError at line 37, is caught, and raises again at
\* line 40, which leaves the loop.
Collect(i) ==
    /\ pc = "collect"
    /\ ready # <<>>
    /\ i = Head(ready)
    /\ ready' = Tail(ready)
    /\ yielded' = yielded \cup {i}
    /\ \/ /\ Hashable(tasks[i].subtopic)
          /\ research_findings' = FindingsPut(research_findings, tasks[i].subtopic, FindingOf(i))
          /\ completed_count' = completed_count + 1
          /\ ReportProgress(Event("Researched", tasks[i].subtopic,
                                  Len(tasks) + completed_count', Len(tasks)),
                            "collect", "unwind")
       \/ /\ ~Hashable(tasks[i].subtopic)
          /\ pc' = "unwind"
          /\ exc' = "TypeError"
          /\ UNCHANGED <<research_findings, completed_count, progress>>
    /\ UNCHANGED <<cb, content, subtopics, tasks, splitter_calls, synth_args, outcomes,
                   final_report, finish_order, net, others>>

\* mutant of ExitPool: the loop and the pool are left without waiting
\* (shutdown(wait=False)) once one future has been handled
ExitPoolWrong ==
    /\ pc = "collect"
    /\ yielded # {} \/ tasks = <<>>
    /\ pc' = "report_synth"
    /\ UNCHANGED <<cb, content, subtopics, tasks, research_findings, yielded, completed_count,
                   progress, exc, splitter_calls, synth_args, outcomes, final_report, ready,
                   finish_order, net, others>>

\* as_completed is exhausted and the with block is left: shutdown(wait=True)
ExitPool ==
    /\ pc = "collect"
    /\ yielded = DOMAIN tasks
    /\ \A i \in DOMAIN tasks : Finished(i)
    /\ pc' = "report_synth"
    /\ UNCHANGED <<cb, content, subtopics, tasks, research_findings, yielded, completed_count,
                   progress, exc, splitter_calls, synth_args, outcomes, final_report, ready,
                   finish_order, net, others>>

\* an exception leaves the with block: shutdown(wait=True) joins the workers,
\* then the exception leaves run
Unwind ==
    /\ pc = "unwind"
    /\ \A i \in DOMAIN tasks : Finished(i)
    /\ pc' = "raised"
    /\ UNCHANGED <<cb, content, subtopics, tasks, research_findings, yielded, completed_count,
                   progress, exc, splitter_calls, synth_args, outcomes, final_report, ready,
                   finish_order, net, others>>

\* mutant of ReportSynth: the synthesis phase is announced as step 1
ReportSynthWrong ==
    /\ pc = "report_synth"
    /\ ReportProgress(Event("Synthesizing findings...", JNone, 1, 1), "synthesize", "raised")
    /\ UNCHANGED <<cb, content, subtopics, tasks, research_findings, yielded,
                   completed_count, splitter_calls, synth_args, outcomes, final_report, ready,
                   finish_order, net, others>>

\* line 46
ReportSynth ==
    /\ pc = "report_synth"
    /\ ReportProgress(Event("Synthesizing findings...", JNone, 2, 1), "synthesize", "raised")
    /\ UNCHANGED <<cb, content, subtopics, tasks, research_findings, yielded,
                   completed_count, splitter_calls, synth_args, outcomes, final_report, ready,
                   finish_order, net, others>>

\* mutant of Synthesize: the synthesizer is skipped when no research step
\* succeeded
SynthesizeWrong ==
    /\ pc = "synthesize"
    /\ net' = Called("llm")
    /\ \/ /\ \E i \in DOMAIN tasks : tasks[i].st = "done"
          /\ synth_args' = Append(synth_args, research_findings)
          /\ \/ /\ outcomes' = [outcomes EXCEPT !.synthesizer = "returned"]
                /\ final_report' = "report"
                /\ pc' = "report_complete"
                /\ exc' = exc
             \/ /\ outcomes' = [outcomes EXCEPT !.synthesizer = "raised"]
                /\ final_report' = final_report
                /\ pc' = "raised"
                /\ exc' = "synthesizer"
       \/ /\ \A i \in DOMAIN tasks : tasks[i].st # "done"
          /\ final_report' = "No findings"
          /\ pc' = "report_complete"
          /\ UNCHANGED <<synth_args, outcomes, exc>>
    /\ UNCHANGED <<cb, content, subtopics, tasks, research_findings, yielded, completed_count,
                   progress, splitter_calls, ready,
                   finish_order, others>>

\* line 47: self.synthesizer.run(topic, research_findings); its LLM call may raise
Synthesize ==
    /\ pc = "synthesize"
    /\ net' = Called("llm")
    /\ synth_args' = Append(synth_args, research_findings)
    /\ \/ /\ outcomes' = [outcomes EXCEPT !.synthesizer = "returned"]
          /\ final_report' = "report"
          /\ pc' = "report_complete"
          /\ exc' = exc
       \/ /\ outcomes' = [outcomes EXCEPT !.synthesizer = "raised"]
          /\ final_report' = final_report
          /\ pc' = "raised"
          /\ exc' = "synthesizer"
    /\ UNCHANGED <<cb, content, subtopics, tasks, research_findings, yielded, completed_count,
                   progress, splitter_calls, ready,
                   finish_order, others>>

\* lines 49-50
ReportComplete ==
    /\ pc = "report_complete"
    /\ ReportProgress(Event("Research complete!", JNone, 3, 1), "returned", "raised")
    /\ UNCHANGED <<cb, content, subtopics, tasks, research_findings, yielded,
                   completed_count, splitter_calls, synth_args, outcomes, final_report, ready,
                   finish_order, net, others>>

Next ==
    \/ ReportStart
    \/ ReportSplit
    \/ SplitTopic
    \/ ReportResearch
    \/ Submit
    \/ AsCompleted
    \/ \E i \in DOMAIN tasks : StartSearch(i)
    \/ \E i \in DOMAIN tasks : StartSummary(i)
    \/ \E i \in DOMAIN tasks : SearchFails(i)
    \/ \E i \in DOMAIN tasks : SummaryReturns(i)
    \/ \E i \in DOMAIN tasks : SummaryFails(i)
    \/ \E i \in DOMAIN tasks : Collect(i)
    \/ ExitPool
    \/ Unwind
    \/ ReportSynth
    \/ Synthesize
    \/ ReportComplete

Spec == Init /\ [][Next]_vars

\* every thread keeps running, and every external call returns or raises
FairSpec == Spec /\ WF_vars(Next)

(***************************************************************************)
(* TopicSplitterAgent.run on its own: the LLM call of lines 13-20 has been *)
(* made and has returned a body, and lines 22-36 turn it into the result.  *)
(***************************************************************************)
SplitterInit ==
    /\ pc = "splitter"
    /\ cb = "none"
    /\ content \in Bodies
    /\ subtopics = JNone
    /\ tasks = <<>>
    /\ research_findings = <<>>
    /\ yielded = {}
    /\ completed_count = 0
    /\ progress = <<>>
    /\ exc = "none"
    /\ splitter_calls = 1
    /\ synth_args = <<>>
    /\ outcomes = [splitter |-> "returned", synthesizer |-> "none"]
    /\ final_report = "none"
    /\ ready = <<>>
    /\ finish_order = <<>>
    /\ net = [llm |-> 1, search |-> 0]
    /\ Idle

SplitterReturn ==
    /\ pc = "splitter"
    /\ subtopics' = SplitterParse(content).val
    /\ exc' = IF SplitterParse(content).raised THEN "JSONDecodeError" ELSE exc
    /\ pc' = "splitter_done"
    /\ UNCHANGED <<cb, content, tasks, research_findings, yielded, completed_count,
                   progress, splitter_calls, synth_args, outcomes, final_report, ready,
                   finish_order, net, others>>

SplitterNext == SplitterReturn

SpecSplitter == SplitterInit /\ [][SplitterNext]_vars

(***************************************************************************)
(* The source curator of ScholarAI5.py.  A text is the sequence of its     *)
(* characters; a URL is the sequence of its pieces (scheme, host labels,   *)
(* path), whose concatenation is the URL's text.                           *)
(***************************************************************************)
\* the state of ResearchWorkflow.run and of the splitter, not running
workflow == <<cb, content, subtopics, tasks, research_findings, yielded, completed_count,
              progress, splitter_calls, synth_args, outcomes, final_report, ready,
              finish_order>>
WorkflowIdle ==
    /\ cb = "none"
    /\ content = <<>>
    /\ subtopics = JNone
    /\ tasks = <<>>
    /\ research_findings = <<>>
    /\ yielded = {}
    /\ completed_count = 0
    /\ progress = <<>>
    /\ splitter_calls = 0
    /\ synth_args = <<>>
    /\ outcomes = [splitter |-> "none", synthesizer |-> "none"]
    /\ final_report = "none"
    /\ ready = <<>>
    /\ finish_order = <<>>

\* str.lower on one character, and on a text
Lower(ch) == IF ch = "B" THEN "b" ELSE ch
LowerText(s) == [i \in 1..Len(s) |-> Lower(s[i])]
\* \s matches the blank
IsSpace(ch) == ch = " "
\* re.sub(r"\s+", " ", s): every run of whitespace becomes one blank
RECURSIVE CollapseSpaces(_)
CollapseSpaces(s) ==
    IF s = <<>> THEN <<>>
    ELSE IF IsSpace(Head(s))
         THEN IF Len(s) > 1 /\ IsSpace(s[2])
              THEN CollapseSpaces(Tail(s))
              ELSE <<" ">> \o CollapseSpaces(Tail(s))
         ELSE <<Head(s)>> \o CollapseSpaces(Tail(s))
\* str.strip
RECURSIVE StripLeft(_)
StripLeft(s) == IF s # <<>> /\ IsSpace(Head(s)) THEN StripLeft(Tail(s)) ELSE s
RECURSIVE StripRight(_)
StripRight(s) ==
    IF s # <<>> /\ IsSpace(s[Len(s)]) THEN StripRight(SubSeq(s, 1, Len(s) - 1)) ELSE s
Strip(s) == StripRight(StripLeft(s))
\* lines 43-44
normalize_text(s) == Strip(CollapseSpaces(LowerText(s)))

\* str.split(): the maximal runs of non-blank characters
RECURSIVE SplitFrom(_, _)
SplitFrom(s, word) ==
    IF s = <<>> THEN (IF word = <<>> THEN {} ELSE {word})
    ELSE IF IsSpace(Head(s))
         THEN (IF word = <<>> THEN {} ELSE {word}) \cup SplitFrom(Tail(s), <<>>)
         ELSE SplitFrom(Tail(s), Append(word, Head(s)))
\* set(s.split())
SplitSet(s) == SplitFrom(s, <<>>)
\* t in text, for two strings
Contains(text, t) ==
    \E i \in 0..(Len(text) - Len(t)) : SubSeq(text, i + 1, i + Len(t)) = t

\* the pieces a URL is made of
Schemes == {"https://"}
PathPieces == {"/p", "/q"}
\* urlparse(u).netloc: what stands between the scheme and the path; empty
\* when the text has no scheme
RECURSIVE UpToPath(_)
UpToPath(u) ==
    IF u = <<>> \/ Head(u) \in PathPieces THEN <<>> ELSE <<Head(u)>> \o UpToPath(Tail(u))
Netloc(u) == IF u # <<>> /\ Head(u) \in Schemes THEN UpToPath(Tail(u)) ELSE <<>>
\* str.lower on a piece
LowerPiece(p) == IF p = "WWW." THEN "www." ELSE p
\* lines 46-50: netloc.lower().replace("www.", ""), every occurrence removed
Domain(u) ==
    LET h == [i \in 1..Len(Netloc(u)) |-> LowerPiece(Netloc(u)[i])]
    IN  SelectSeq(h, LAMBDA p : p # "www.")

\* line 56: 0.5 when ".edu" or ".gov" occurs anywhere in the domain; in halves
Bonus(url) == IF \E i \in 1..Len(Domain(url)) : Domain(url)[i] \in {".edu", ".gov"} THEN 1 ELSE 0
\* lines 53-55: the query tokens that occur in the normalized "title snippet"
Hits(q, title, snippet) ==
    Cardinality({t \in SplitSet(normalize_text(q)) :
                    Contains(normalize_text(title \o <<" ">> \o snippet), t)})
\* lines 52-57, the score in halves: 2 * (hits + bonus)
ScoreItem(q, title, snippet, url) == 2 * Hits(q, title, snippet) + Bonus(url)

\* a hit as web_search returns it
Hit(title, url, snippet) == [title |-> title, url |-> url, snippet |-> snippet]
\* the HttpUrl field of CuratedSource (line 25): a URL without an http scheme
\* is refused, and the scheme and the host of an accepted one are lower-cased
ValidUrl(u) == u # <<>> /\ Head(u) \in Schemes
NormalizeUrl(u) == [i \in 1..Len(u) |-> LowerPiece(u[i])]
\* the ValidationError the constructor raises, as a value no source equals
ValidationError == [title |-> <<>>, url |-> <<>>, snippet |-> <<>>, score |-> -1]
\* line 92: CuratedSource(title=..., url=..., snippet=..., score=s)
CuratedSource(q, r) ==
    IF ValidUrl(r.url)
    THEN [title |-> r.title, url |-> NormalizeUrl(r.url), snippet |-> r.snippet,
          score |-> ScoreItem(q, r.title, r.snippet, r.url)]
    ELSE ValidationError
\* the loop of lines 87-92 was left by that exception
Raises(cs) == cs # <<>> /\ cs[Len(cs)] = ValidationError

\* mutant of Dedup: a later hit of a domain replaces the one kept for it
RECURSIVE DedupLast(_, _)
DedupLast(q, rs) ==
    IF rs = <<>> THEN <<>>
    ELSE LET r == rs[Len(rs)]
             rest == DedupLast(q, SubSeq(rs, 1, Len(rs) - 1))
             same(c) == Domain(c.url) = Domain(r.url)
         IN  IF Raises(rest) THEN rest
             ELSE IF \E i \in 1..Len(rest) : same(rest[i])
             THEN [i \in 1..Len(rest) |-> IF same(rest[i]) THEN CuratedSource(q, r) ELSE rest[i]]
             ELSE Append(rest, CuratedSource(q, r))
\* lines 85-92: the loop over raw with the set of domains seen; it ends at
\* the first hit whose CuratedSource cannot be built
RECURSIVE Dedup(_, _)
Dedup(q, rs) ==
    IF rs = <<>> THEN <<>>
    ELSE LET r == rs[Len(rs)]
             before == SubSeq(rs, 1, Len(rs) - 1)
             rest == Dedup(q, before)
         IN  IF Raises(rest) THEN rest
             ELSE IF \E i \in 1..Len(before) : Domain(before[i].url) = Domain(r.url)
             THEN rest
             ELSE Append(rest, CuratedSource(q, r))

\* line 92: list.sort(key=score, reverse=True), a stable sort
RECURSIVE SortByScore(_)
SortByScore(cs) ==
    IF cs = <<>> THEN <<>>
    ELSE LET c == cs[Len(cs)]
             rest == SortByScore(SubSeq(cs, 1, Len(cs) - 1))
             n == Cardinality({i \in 1..Len(rest) : rest[i].score >= c.score})
         IN  SubSeq(rest, 1, n) \o <<c>> \o SubSeq(rest, n + 1, Len(rest))
\* the slice cs[:n]: the first n elements, all but the last -n for n < 0
Truncate(cs, n) ==
    SubSeq(cs, 1, IF n < 0 THEN (IF Len(cs) + n > 0 THEN Len(cs) + n ELSE 0)
                  ELSE IF n < Len(cs) THEN n ELSE Len(cs))

\* lines 74-80: the organic results that have a title and a link
KeepComplete(rs) == SelectSeq(rs, LAMBDA r : r.title # <<>> /\ r.url # <<>>)
\* line 68: "num": min(max(k, 1), 20)
NumFor(n) == IF n < 1 THEN 1 ELSE IF n > 20 THEN 20 ELSE n

\* the texts and the URLs the score function is given
TextChars == {"a", "B", " "}
HostPieces == {"www.", "WWW.", "a", ".com", ".edu", ".gov"}
Hosts == SeqsUpTo(HostPieces, MaxHostLen) \ {<<>>}
Urls == {s \o h \o <<"/p">> : s \in {<<>>, <<"https://">>}, h \in Hosts}
SomeUrls == {<<"https://", "www.", "a", ".edu", "/p">>, <<"https://", "a", ".com", "/p">>}
SomeTexts == {<<"a", " ", "B">>, <<"a">>}

\* the organic results the search provider returns to curate_sources
HitPool ==
    {Hit(<<"a">>, <<"https://", "www.", "a", ".com", "/p">>, <<>>),
     Hit(<<"B", " ", "a">>, <<"https://", "a", ".com", "/q">>, <<"b">>),
     Hit(<<"q">>, <<"https://", "a", ".edu", "/p">>, <<>>),
     Hit(<<"b">>, <<"https://", "WWW.", "a", ".edu", "/p">>, <<>>),
     Hit(<<"q">>, <<"https://", "b", ".com", "/p">>, <<"q">>),
     Hit(<<>>, <<"https://", "c", ".gov", "/p">>, <<"a">>),
     Hit(<<"a">>, <<"www.", "a", ".edu", "/p">>, <<>>)}

\* _score_item is called with a query and the title, snippet and url of a hit
ScoreInit ==
    /\ pc = "score"
    /\ exc = "none"
    /\ \/ /\ query \in SeqsUpTo(TextChars, MaxQueryLen)
          /\ \E t \in SeqsUpTo(TextChars, MaxTitleLen), sn \in SeqsUpTo(TextChars, MaxSnippetLen),
                u \in SomeUrls : raw = <<Hit(t, u, sn)>>
       \/ /\ query \in SomeTexts
          /\ \E t \in SomeTexts, u \in Urls : raw = <<Hit(t, u, <<>>)>>
    /\ env = {}
    /\ flow = "none"
    /\ net = NoCalls
    /\ k = 0
    /\ num = 0
    /\ top_n = 0
    /\ sources = "none"
    /\ score = -1
    /\ tool_calls = <<>>
    /\ rounds = 0
    /\ WorkflowIdle

\* lines 52-57
ScoreReturn ==
    /\ pc = "score"
    /\ score' = ScoreItem(query, raw[1].title, raw[1].snippet, raw[1].url)
    /\ pc' = "scored"
    /\ UNCHANGED <<exc, env, flow, net, k, num, query, raw, top_n, sources, workflow, tool_calls, rounds>>

ScoreNext == ScoreReturn

SpecScore == ScoreInit /\ [][ScoreNext]_vars

\* curate_sources(query, k, top_n) is called; raw holds what the provider will
\* answer; k is any integer the caller passes, a negative one included
CurateInit ==
    /\ pc = "web_search"
    /\ exc = "none"
    /\ env \in {{}, {"SERPAPI_API_KEY"}}
    /\ query \in SomeTexts
    /\ raw \in SeqsUpTo(HitPool, MaxHits)
    /\ k \in -1..MaxHits
    /\ top_n \in 0..MaxTopN
    /\ flow = "none"
    /\ net = NoCalls
    /\ num = 0
    /\ sources = "none"
    /\ score = -1
    /\ tool_calls = <<>>
    /\ rounds = 0
    /\ WorkflowIdle

\* lines 60-81, called at line 84: without the key RuntimeError is raised;
\* with it the provider is asked for num results, and the first k of the
\* results that have a title and a link are returned
WebSearch ==
    /\ pc = "web_search"
    /\ \/ /\ "SERPAPI_API_KEY" \notin env
          /\ pc' = "raised"
          /\ exc' = "RuntimeError"
          /\ UNCHANGED <<net, num, raw>>
       \/ /\ "SERPAPI_API_KEY" \in env
          /\ net' = Called("search")
          /\ num' = NumFor(k)
          /\ raw' = Truncate(KeepComplete(raw), k)
          /\ pc' = "curate"
          /\ exc' = exc
    /\ UNCHANGED <<env, flow, k, query, top_n, sources, score, workflow, tool_calls, rounds>>

\* lines 85-94; a ValidationError of line 92 leaves curate_sources
CurateSources ==
    /\ pc = "curate"
    /\ IF Raises(Dedup(query, raw))
       THEN /\ pc' = "raised"
            /\ exc' = "ValidationError"
            /\ sources' = sources
       ELSE /\ sources' = Truncate(SortByScore(Dedup(query, raw)), top_n)
            /\ pc' = "curated"
            /\ exc' = exc
    /\ UNCHANGED <<env, flow, net, k, num, query, raw, top_n, score, workflow, tool_calls, rounds>>

CurateNext == WebSearch \/ CurateSources

SpecCurate == CurateInit /\ [][CurateNext]_vars

(***************************************************************************)
(* Credentials and network calls of the three submissions' flows:          *)
(* ResearchWorkflow() and run (art-turner-ag), ResearchAgent() and         *)
(* research with its web_search tool (art-turner), and curate_sources      *)
(* then synthesize (ScholarAI5).  net counts the outbound calls made.      *)
(***************************************************************************)
Credentials == {"OPENAI_API_KEY", "TAVILY_API_KEY", "SERPAPI_API_KEY"}
Flows == {"ResearchWorkflow", "ResearchAgent", "ScholarAI5"}
\* the exceptions that report a missing credential
ConfigErrors == {"OpenAIError", "MissingAPIKeyError", "ValueError: OPENAI_API_KEY",
                 "ValueError: TAVILY_API_KEY", "RuntimeError: SERPAPI_API_KEY"}

\* a tool call of an answer: the function's name and what its arguments are
\* (the text of a JSON object, of a JSON list, or no JSON)
ToolCall(name, args) == [name |-> name, args |-> args]
ToolCalls == {ToolCall("web_search", a) : a \in {"object", "list", "not_json"}}
                 \cup {ToolCall("other", "object")}
\* message.tool_calls of an answer: None, or a list of tool calls
ToolCallLists == SeqsUpTo(ToolCalls, MaxToolCalls)

\* what the search provider answers to the ScholarAI5 flow
FlowResults ==
    {<<>>,
     <<Hit(<<"a">>, <<"https://", "www.", "a", ".com", "/p">>, <<>>)>>,
     <<Hit(<<"a">>, <<"www.", "a", ".edu", "/p">>, <<>>)>>,
     <<Hit(<<"q">>, <<"https://", "a", ".edu", "/p">>, <<>>),
       Hit(<<"a">>, <<"www.", "a", ".edu", "/p">>, <<>>)>>}
\* what the LLM answers to synthesize: text that is no JSON, a JSON list, or
\* a JSON object whose key findings cite the given URLs
ReportAnswer(json, urls) == [json |-> json, citation_urls |-> urls]
ReportAnswers ==
    {ReportAnswer("not_json", <<>>), ReportAnswer("list", <<>>)}
        \cup {ReportAnswer("object", us) :
                  us \in {<<>>, <<<<"https://", "a", ".com", "/p">>>>, <<<<"a", ".com", "/p">>>>}}

\* the flow is entered; the ScholarAI5 run is given a query and the sliders'
\* least k and top_n (lines 178-179), and raw holds what the provider will
\* answer
FlowInit ==
    /\ pc = "construct"
    /\ exc = "none"
    /\ flow \in Flows
    /\ env \in SUBSET Credentials
    /\ net = NoCalls
    /\ num = 0
    /\ IF flow = "ScholarAI5"
       THEN /\ query = <<"a">>
            /\ raw \in FlowResults
            /\ k = 5
            /\ top_n = 3
       ELSE /\ query = <<>>
            /\ raw = <<>>
            /\ k = 0
            /\ top_n = 0
    /\ sources = "none"
    /\ score = -1
    /\ tool_calls = <<>>
    /\ rounds = 0
    /\ WorkflowIdle

\* an outbound call to the LLM or to the search provider is made
Outbound(kind) == net' = Called(kind)

\* ResearchWorkflow.__init__: each agent builds OpenAI(api_key=os.getenv(...)),
\* the researcher also TavilyClient(api_key=os.getenv(...)); the clients
\* refuse a key that is None.  Once built, run is called.
WorkflowConstruct ==
    /\ flow = "ResearchWorkflow"
    /\ pc = "construct"
    /\ IF "OPENAI_API_KEY" \notin env THEN pc' = "raised" /\ exc' = "OpenAIError"
       ELSE IF "TAVILY_API_KEY" \notin env THEN pc' = "raised" /\ exc' = "MissingAPIKeyError"
       ELSE pc' = "start" /\ exc' = exc
    /\ UNCHANGED <<net, others, workflow>>

\* ResearchWorkflow.run, with its splitter, research and synthesizer calls
WorkflowRun ==
    /\ flow = "ResearchWorkflow"
    /\ Next

\* ResearchAgent.__init__, lines 27-31
AgentConstruct ==
    /\ flow = "ResearchAgent"
    /\ pc = "construct"
    /\ IF "OPENAI_API_KEY" \notin env
       THEN pc' = "raised" /\ exc' = "ValueError: OPENAI_API_KEY"
       ELSE pc' = "agent_call" /\ exc' = exc
    /\ UNCHANGED <<net, others, workflow>>

\* the iterations of `while response.choices[0].message.tool_calls` begun
ToolRounds == rounds

\* research, lines 97-102 and 130-135, and the test of line 106: an LLM call;
\* it fails, or its answer carries no tool call and research returns, or it
\* carries tool calls and the while loop is entered once more
AgentAnswer ==
    /\ Outbound("llm")
    /\ \/ /\ pc' = "raised"
          /\ exc' = "provider"
          /\ UNCHANGED <<tool_calls, rounds>>
       \/ /\ pc' = "agent_done"
          /\ exc' = exc
          /\ tool_calls' = <<>>
          /\ rounds' = rounds
       \/ /\ ToolRounds < MaxToolRounds
          /\ \E tcs \in ToolCallLists \ {<<>>} : tool_calls' = tcs
          /\ rounds' = rounds + 1
          /\ pc' = "agent_tool"
          /\ exc' = exc

\* line 112: the tool calls that are not web_search are passed over
RECURSIVE SkipOthers(_)
SkipOthers(tcs) ==
    IF tcs # <<>> /\ Head(tcs).name # "web_search" THEN SkipOthers(Tail(tcs)) ELSE tcs

\* research, the first LLM call (lines 97-102) and the one made after a
\* round whose last tool call was a search (lines 130-135)
AgentCall ==
    /\ flow = "ResearchAgent"
    /\ pc = "agent_call"
    /\ AgentAnswer
    /\ UNCHANGED <<env, flow, k, num, query, raw, top_n, sources, score, workflow>>

\* research, lines 111-135, up to the next outbound call: the for loop goes
\* to the next web_search tool call, parses its arguments (json.loads, line
\* 114; args.get, line 115) and calls web_search(query, k), which builds
\* WebSearchTool(), raising ValueError without the key (web_search.py lines
\* 18-20), and searches, a failed search being raised as RuntimeError; when
\* no web_search tool call is left the next LLM call is made
AgentTool ==
    /\ flow = "ResearchAgent"
    /\ pc = "agent_tool"
    /\ LET rest == SkipOthers(tool_calls)
       IN  IF rest = <<>> THEN AgentAnswer
           ELSE /\ rounds' = rounds
                /\ IF Head(rest).args = "not_json"
                   THEN /\ pc' = "raised" /\ exc' = "JSONDecodeError"
                        /\ UNCHANGED <<net, tool_calls>>
                   ELSE IF Head(rest).args = "list"
                   THEN /\ pc' = "raised" /\ exc' = "AttributeError"
                        /\ UNCHANGED <<net, tool_calls>>
                   ELSE IF "TAVILY_API_KEY" \notin env
                   THEN /\ pc' = "raised" /\ exc' = "ValueError: TAVILY_API_KEY"
                        /\ UNCHANGED <<net, tool_calls>>
                   ELSE /\ Outbound("search")
                        /\ \/ /\ tool_calls' = SkipOthers(Tail(rest))
                              /\ pc' = IF tool_calls' = <<>> THEN "agent_call" ELSE "agent_tool"
                              /\ exc' = exc
                           \/ /\ tool_calls' = tool_calls
                              /\ pc' = "raised"
                              /\ exc' = "RuntimeError: Web search failed"
    /\ UNCHANGED <<env, flow, k, num, query, raw, top_n, sources, score, workflow>>

\* ScholarAI5, line 194: curate_sources(query, k, top_n).  web_search raises
\* RuntimeError without the key (lines 62-64) and searches (line 72); the
\* hits it returns are curated (lines 85-94), where a link HttpUrl refuses
\* raises ValidationError
ScholarSearch ==
    /\ flow = "ScholarAI5"
    /\ pc = "construct"
    /\ \/ /\ "SERPAPI_API_KEY" \notin env
          /\ pc' = "raised"
          /\ exc' = "RuntimeError: SERPAPI_API_KEY"
          /\ UNCHANGED <<net, num, raw, sources>>
       \/ /\ "SERPAPI_API_KEY" \in env
          /\ Outbound("search")
          /\ num' = NumFor(k)
          /\ \/ /\ pc' = "raised"
                /\ exc' = "provider"
                /\ UNCHANGED <<raw, sources>>
             \/ /\ raw' = Truncate(KeepComplete(raw), k)
                /\ IF Raises(Dedup(query, raw'))
                   THEN /\ pc' = "raised"
                        /\ exc' = "ValidationError"
                        /\ sources' = sources
                   ELSE /\ sources' = Truncate(SortByScore(Dedup(query, raw')), top_n)
                        /\ pc' = "s5_client"
                        /\ exc' = exc
    /\ UNCHANGED <<env, flow, k, query, top_n, score, tool_calls, rounds, workflow>>

\* ScholarAI5, line 204: synthesize builds OpenAI() (line 119), which refuses
\* a missing key
ScholarClient ==
    /\ flow = "ScholarAI5"
    /\ pc = "s5_client"
    /\ IF "OPENAI_API_KEY" \notin env THEN pc' = "raised" /\ exc' = "OpenAIError"
       ELSE pc' = "s5_create" /\ exc' = exc
    /\ UNCHANGED <<net, others, workflow>>

\* synthesize, lines 126-148: the LLM call fails, or its answer is parsed
\* (json.loads, line 139), read with data.get (line 142) and built into a
\* Report whose citation URLs HttpUrl validates (line 141)
ScholarCreate ==
    /\ flow = "ScholarAI5"
    /\ pc = "s5_create"
    /\ Outbound("llm")
    /\ \/ /\ pc' = "raised"
          /\ exc' = "provider"
       \/ \E a \in ReportAnswers :
              IF a.json = "not_json" THEN pc' = "raised" /\ exc' = "JSONDecodeError"
              ELSE IF a.json = "list" THEN pc' = "raised" /\ exc' = "AttributeError"
              ELSE IF \E i \in 1..Len(a.citation_urls) : ~ValidUrl(a.citation_urls[i])
              THEN pc' = "raised" /\ exc' = "ValidationError"
              ELSE pc' = "done" /\ exc' = exc
    /\ UNCHANGED <<others, workflow>>

FlowNext ==
    \/ WorkflowConstruct
    \/ WorkflowRun
    \/ AgentConstruct
    \/ AgentCall
    \/ AgentTool
    \/ ScholarSearch
    \/ ScholarClient
    \/ ScholarCreate

SpecFlows == FlowInit /\ [][FlowNext]_vars

\* C9: when the body parses as a JSON list the result is that list, unchanged
\* (and its JSON text is the body again); when it parses as an object with a
\* list-valued entry the result is the first such list in insertion order;
\* when it does not parse the result is the empty list; no error is raised.
\* '["A","B","AB"]' gives ["A","B","AB"], '{"AB":["A","B"]}' gives ["A","B"],
\* 'not' gives [].
C9_SplitterListObjectOrNotJson ==
    pc = "splitter_done" =>
        LET r == JsonLoads(content) IN
        /\ exc = "none"
        /\ (r.ok /\ IsList(r.val)) => (subtopics = r.val /\ Render(subtopics) = content)
        /\ (r.ok /\ r.val.t = "dict" /\ HasListValue(r.val)) =>
               \E i \in 1..Len(r.val.items) :
                   /\ subtopics = r.val.items[i].items[1]
                   /\ IsList(subtopics)
                   /\ \A h \in 1..(i - 1) : ~IsList(r.val.items[h].items[1])
        /\ ~r.ok => subtopics = JList(<<>>)
        /\ content = ExampleList => subtopics = JList(<<JStr("A"), JStr("B"), JStr("AB")>>)
        /\ content = ExampleObject => subtopics = JList(<<JStr("A"), JStr("B")>>)
        /\ content = ExampleNotJson => subtopics = JList(<<>>)
        /\ content = RepeatedKey => subtopics = JList(<<JStr("B")>>)

\* C9 witness: an object whose first value is not a list and whose second is
C9_Witness ==
    /\ pc = "splitter_done"
    /\ content = <<"{", Quote("A"), ":", NumTok, ",", Quote("B"), ":", "[", Quote("A"), "]", "}">>
    /\ subtopics = JList(<<JStr("A")>>)

\* C10: for an object with no list-valued entry the result is the list of all
\* the values of the object, the empty list for the empty object.
C10_AllValuesOfObject ==
    pc = "splitter_done" =>
        LET r == JsonLoads(content) IN
        (r.ok /\ r.val.t = "dict" /\ ~HasListValue(r.val)) =>
            subtopics = JList([i \in 1..Len(r.val.items) |-> r.val.items[i].items[1]])

(***************************************************************************)
(* Properties of ResearchWorkflow.run.                                     *)
(***************************************************************************)
Terminated == pc \in {"returned", "raised"}
\* the sub-topic of each future is different from that of every other
KeysDistinct == \A i, j \in DOMAIN tasks : i # j => tasks[i].subtopic # tasks[j].subtopic
\* the text the finding of step i has to be: "Error: {message}" when the step
\* raised, its research result otherwise
ExpectedText(i) ==
    IF tasks[i].st = "failed" THEN "Error: " \o tasks[i].res.msg ELSE "summary"
IsOwnFinding(v, i) == v = [kind |-> "text", by |-> i, msg |-> ExpectedText(i)]
\* the exceptions that leave run
RunErrors == {"splitter", "synthesizer", "callback", "TypeError"}

\* C1 as stated: the findings map the synthesizer is given has, for every
\* submitted sub-topic, "Error: {message}" if its research step raised and
\* the research result if it succeeded.
C1_EveryStepRecorded ==
    synth_args # <<>> =>
        \A i \in DOMAIN tasks :
            /\ tasks[i].subtopic \in FindingsKeys(synth_args[1])
            /\ FindingsGet(synth_args[1], tasks[i].subtopic).msg = ExpectedText(i)

\* C1 amended: no exception of a research step leaves run; the synthesizer is
\* given a map with exactly one entry per distinct sub-topic; the entry of a
\* sub-topic that occurs once in the list is the outcome of its own step
\* ("Error: {message}" or the result), the entry of a repeated sub-topic is
\* the outcome of one of its steps.
C1_Containment ==
    /\ pc \in {"unwind", "raised"} => exc \in RunErrors
    /\ \A i \in yielded :
           Hashable(tasks[i].subtopic) =>
               /\ tasks[i].subtopic \in FindingsKeys(research_findings)
               /\ \E j \in yielded :
                      /\ tasks[j].subtopic = tasks[i].subtopic
                      /\ IsOwnFinding(FindingsGet(research_findings, tasks[i].subtopic), j)
    /\ synth_args # <<>> =>
           /\ Len(synth_args[1]) = Cardinality({tasks[i].subtopic : i \in DOMAIN tasks})
           /\ \A i \in DOMAIN tasks :
                  /\ tasks[i].subtopic \in FindingsKeys(synth_args[1])
                  /\ \E j \in DOMAIN tasks :
                         /\ tasks[j].subtopic = tasks[i].subtopic
                         /\ IsOwnFinding(FindingsGet(synth_args[1], tasks[i].subtopic), j)
                  /\ (\A j \in DOMAIN tasks : j # i => tasks[j].subtopic # tasks[i].subtopic)
                         => IsOwnFinding(FindingsGet(synth_args[1], tasks[i].subtopic), i)

\* C1 witness: three sub-topics, exactly one failed step, and the synthesizer
\* called with three entries of which exactly one is an error text
C1_Witness ==
    /\ synth_args # <<>>
    /\ Len(tasks) = 3
    /\ KeysDistinct
    /\ Cardinality({i \in DOMAIN tasks : tasks[i].st = "failed"}) = 1
    /\ Len(synth_args[1]) = 3
    /\ Cardinality({i \in 1..3 : synth_args[1][i].v.msg # "summary"}) = 1

\* C2: no research step has started unless the splitter call has returned,
\* and from the moment the loop is left for the synthesis phase every
\* submitted research step has completed or failed.
C2_PhaseOrder ==
    /\ (\E i \in DOMAIN tasks : tasks[i].st # "queued") =>
           /\ outcomes.splitter = "returned"
           /\ pc \notin {"start", "report_split", "split", "report_research"}
    /\ (pc \in {"report_synth", "synthesize", "report_complete", "returned"}
            \/ synth_args # <<>>) =>
           \A i \in DOMAIN tasks : Finished(i)

\* C2 witness: the synthesizer is about to be called after three research
\* steps, some failed and some completed
C2_Witness ==
    /\ pc = "synthesize"
    /\ Len(tasks) = 3
    /\ \E i \in DOMAIN tasks : tasks[i].st = "failed"
    /\ \E i \in DOMAIN tasks : tasks[i].st = "done"

\* C3 as stated: every run (here: without a progress callback) that has ended
\* has called the synthesizer exactly once.
C3_ExactlyOnceInEveryRun == (cb = "none" /\ Terminated) => Len(synth_args) = 1

\* C3 amended: the synthesizer is called at most once; not before the research
\* phase is over; exactly once in every run that gets past line 47, whatever
\* the number of research steps that succeeded; a run that ends without
\* having called it ended with an exception raised before line 47.
C3_AtMostOnce ==
    /\ Len(synth_args) <= 1
    /\ pc \in {"start", "report_split", "split", "report_research", "submit", "as_completed", "collect",
               "unwind", "report_synth", "synthesize"} => synth_args = <<>>
    /\ pc \in {"report_complete", "returned"} => Len(synth_args) = 1
    /\ (pc = "raised" /\ synth_args = <<>>) => exc \in {"splitter", "callback", "TypeError"}

\* C3 witness: a run returned after all three research steps failed, with one
\* synthesizer call
C3_Witness ==
    /\ pc = "returned"
    /\ Len(tasks) = 3
    /\ \A i \in DOMAIN tasks : tasks[i].st = "failed"
    /\ Len(synth_args) = 1

\* C4 as stated: a run (here: without a progress callback) never ends by
\* raising.
C4_NeverRaises == cb = "none" => pc # "raised"

\* what holds of a run at each moment: it is never stuck before its end; when
\* it has returned, the report is the synthesizer's and the findings are those
\* the synthesizer was given, with one entry per distinct sub-topic: the
\* entry of a sub-topic that occurs once is the outcome of its own step (the
\* error text of a failed step, the result of a completed one), the entry of
\* a repeated sub-topic is the outcome of one of its steps; when it has
\* raised, the splitter's or the synthesizer's LLM call raised, or the progress
\* callback raised, or the splitter's result was not iterable or held an
\* unhashable element.
RunOutcome ==
    /\ ~Terminated => ENABLED Next
    /\ pc = "returned" =>
           /\ exc = "none"
           /\ final_report = "report"
           /\ synth_args = <<research_findings>>
           /\ Len(research_findings) = Cardinality({tasks[i].subtopic : i \in DOMAIN tasks})
           /\ \A i \in DOMAIN tasks :
                  /\ tasks[i].subtopic \in FindingsKeys(research_findings)
                  /\ \E j \in DOMAIN tasks :
                         /\ tasks[j].subtopic = tasks[i].subtopic
                         /\ IsOwnFinding(FindingsGet(research_findings, tasks[i].subtopic), j)
                  /\ (\A j \in DOMAIN tasks : j # i => tasks[j].subtopic # tasks[i].subtopic)
                         => IsOwnFinding(FindingsGet(research_findings, tasks[i].subtopic), i)
    /\ pc = "raised" =>
           \/ exc = "splitter" /\ outcomes.splitter = "raised"
           \/ exc = "synthesizer" /\ outcomes.synthesizer = "raised"
           \/ exc = "callback" /\ cb = "sink"
           \/ /\ exc = "TypeError"
              /\ \/ ~Iterable(subtopics)
                 \/ \E i \in DOMAIN tasks : ~Hashable(tasks[i].subtopic)

\* C4 amended: every run ends; it ends by returning (final_report,
\* research_findings), the map holding for each sub-topic that occurs once the
\* outcome of its step (a failed step as its error text) and for a repeated
\* sub-topic the outcome of one of its steps, unless one of the exceptions
\* named in RunOutcome leaves it.
C4_EndsWithReportOrRunError == []RunOutcome /\ <>Terminated

\* C4 witness: a run returned a report although a research step failed; the
\* error text of that step is in the map, while the error of another failed
\* step, whose sub-topic is repeated, has been overwritten by the result of
\* the step with the same sub-topic
C4_Witness ==
    /\ pc = "returned"
    /\ final_report = "report"
    /\ \E i \in DOMAIN tasks :
           /\ tasks[i].st = "failed"
           /\ \A j \in DOMAIN tasks : j # i => tasks[j].subtopic # tasks[i].subtopic
           /\ FindingsGet(research_findings, tasks[i].subtopic).msg = "Error: search failed"
    /\ \E i, j \in DOMAIN tasks :
           /\ i # j
           /\ tasks[i].subtopic = tasks[j].subtopic
           /\ tasks[i].st = "failed"
           /\ tasks[j].st = "done"
           /\ FindingsGet(research_findings, tasks[i].subtopic).msg = "summary"

\* C5 as stated: a failure of the splitter's LLM call, or of the
\* synthesizer's, ends the run by raising (no report is returned); the
\* failure of a research step that the loop has collected is not what leaves
\* run, and the findings map holds its error text under its sub-topic.
C5_StepFailureInline ==
    /\ outcomes.splitter = "raised" =>
           pc = "raised" /\ exc = "splitter" /\ tasks = <<>> /\ synth_args = <<>>
    /\ outcomes.synthesizer = "raised" => pc = "raised" /\ exc = "synthesizer"
    /\ pc \in {"unwind", "raised"} => exc \in RunErrors
    /\ \A i \in yielded :
           tasks[i].st = "failed" =>
               /\ tasks[i].subtopic \in FindingsKeys(research_findings)
               /\ FindingsGet(research_findings, tasks[i].subtopic).msg
                      = "Error: " \o tasks[i].res.msg

\* C5 amended: a failure of the splitter's LLM call, or of the synthesizer's,
\* ends the run by raising at once (nothing is submitted after the first, no
\* report is returned); the exception of a research step is never what leaves
\* run.  A collected failed step whose sub-topic can be a dict key has an
\* entry under that sub-topic: its own error text as long as no other step
\* with the same sub-topic has been collected, and otherwise the outcome of
\* one of the collected steps with that sub-topic.  When the sub-topic cannot
\* be a dict key, storing the error text raises TypeError, which leaves run.
C5_PropagationByPhase ==
    /\ outcomes.splitter = "raised" =>
           pc = "raised" /\ exc = "splitter" /\ tasks = <<>> /\ synth_args = <<>>
    /\ outcomes.synthesizer = "raised" => pc = "raised" /\ exc = "synthesizer"
    /\ pc \in {"unwind", "raised"} => exc \in RunErrors
    /\ \A i \in yielded :
           tasks[i].st = "failed" =>
               IF Hashable(tasks[i].subtopic)
               THEN /\ tasks[i].subtopic \in FindingsKeys(research_findings)
                    /\ \E j \in yielded :
                           /\ tasks[j].subtopic = tasks[i].subtopic
                           /\ IsOwnFinding(FindingsGet(research_findings, tasks[i].subtopic), j)
                    /\ (\A j \in yielded : j # i => tasks[j].subtopic # tasks[i].subtopic) =>
                           IsOwnFinding(FindingsGet(research_findings, tasks[i].subtopic), i)
               ELSE /\ pc \in {"unwind", "raised"}
                    /\ exc = "TypeError"
                    /\ tasks[i].subtopic \notin FindingsKeys(research_findings)

\* C5 witness: a research step failed and was recorded, the run went on to
\* the synthesizer, whose failure ended the run
C5_Witness ==
    /\ pc = "raised"
    /\ outcomes.synthesizer = "raised"
    /\ \E i \in DOMAIN tasks :
           /\ tasks[i].st = "failed"
           /\ FindingsGet(research_findings, tasks[i].subtopic).msg = "Error: completion failed"

\* C6: for pairwise distinct sub-topics, whatever the order in which the
\* research steps finished, the map given to the synthesizer (and returned)
\* has exactly one entry per sub-topic, holding the outcome of that
\* sub-topic's own step.
C6_CompletionOrderIndependent ==
    (synth_args # <<>> /\ KeysDistinct) =>
        /\ Len(synth_args[1]) = Len(tasks)
        /\ FindingsKeys(synth_args[1]) = {tasks[i].subtopic : i \in DOMAIN tasks}
        /\ \A i \in DOMAIN tasks :
               IsOwnFinding(FindingsGet(synth_args[1], tasks[i].subtopic), i)
        /\ pc = "returned" => research_findings = synth_args[1]

\* C6 witness: three distinct sub-topics collected in the reverse of the
\* order in which they were submitted
C6_Witness ==
    /\ pc = "returned"
    /\ Len(tasks) = 3
    /\ KeysDistinct
    /\ research_findings[1].k = tasks[3].subtopic
    /\ research_findings[2].k = tasks[2].subtopic
    /\ research_findings[3].k = tasks[1].subtopic

\* C7: whatever the progress callback does, the run proceeds as with a
\* callback that does nothing: in particular no run ends with an exception
\* of the callback.
C7_SinkIsObservational == pc = "raised" => exc # "callback"

\* C8: when the splitter has returned a list of n elements, the run makes one
\* splitter call, one search call for each of the n elements, and for each
\* element one research LLM call if its search succeeded and none if not.
C8_OneCallEach ==
    (Terminated /\ outcomes.splitter = "returned" /\ IsList(subtopics)) =>
        /\ splitter_calls = 1
        /\ Len(tasks) = Len(subtopics.items)
        /\ \A i \in DOMAIN tasks :
               /\ tasks[i].searches = 1
               /\ tasks[i].llms = IF tasks[i].res.msg = "search failed" THEN 0 ELSE 1

\* the number of submitted futures whose sub-topic is k
Occurrences(key) == Cardinality({i \in DOMAIN tasks : tasks[i].subtopic = key})

\* C14 as stated: once the findings map holds a value for a key, no later
\* step of the run changes the value stored under that key, also when the
\* splitter's list repeats a sub-topic.
C14_WriteOnce ==
    [][\A key \in FindingsKeys(research_findings) :
           /\ key \in FindingsKeys(research_findings')
           /\ FindingsGet(research_findings', key) = FindingsGet(research_findings, key)]_vars

\* C14 amended: a key of the findings map is never removed; the value stored
\* under a sub-topic that occurs once in the splitter's list never changes
\* once stored; the value under a repeated sub-topic changes only when the
\* loop collects another step of that same sub-topic, and becomes that step's
\* finding.
C14_WriteOncePerStep ==
    [][\A key \in FindingsKeys(research_findings) :
           /\ key \in FindingsKeys(research_findings')
           /\ Occurrences(key) = 1 =>
                  FindingsGet(research_findings', key) = FindingsGet(research_findings, key)
           /\ FindingsGet(research_findings', key) # FindingsGet(research_findings, key) =>
                  \E i \in yielded' \ yielded :
                      /\ tasks[i].subtopic = key
                      /\ FindingsGet(research_findings', key) = FindingOf(i)]_vars

\* C14 witness: a run over ["A", "B", "A"] returned with two entries; the one
\* of "A" was stored by step 3 and then replaced by the finding of step 1, the
\* one of "B" is that of its only step.
C14_Witness ==
    /\ pc = "returned"
    /\ Len(tasks) = 3
    /\ tasks[1].subtopic = tasks[3].subtopic
    /\ Len(research_findings) = 2
    /\ research_findings[1].k = tasks[1].subtopic
    /\ research_findings[1].v.by = 1
    /\ research_findings[2].v.by = 2
    /\ progress[4].of = tasks[3].subtopic
    /\ progress[5].of = tasks[2].subtopic

\* the per-sub-topic progress events, in the order they were emitted
Researched == SelectSeq(progress, LAMBDA e : e.message = "Researched")

\* C15 as stated, the order of the events: the futures are handed to the loop,
\* and so their events are emitted, in the order in which they finished.
C15_CompletionOrder ==
    [][(pc = "as_completed" /\ pc' = "collect") => ready' = finish_order]_vars

\* C15 amended: every iteration of the loop that stores a finding emits exactly
\* one event, "Researched {subtopic}" at 1 + completed_count / n of 3, where
\* completed_count is the number of findings stored so far and n the number of
\* sub-topics; an iteration whose sub-topic is unhashable emits none and ends
\* the loop; the iterations take the futures in the order as_completed yields
\* them: a future that finishes while the loop runs is yielded after all that
\* finished before it, and those that had finished before the loop started
\* are yielded first, in no particular order.
C15_EventPerCollectedStep ==
    /\ [](/\ Len(Researched) = completed_count
          /\ \A j \in 1..Len(Researched) :
                 /\ Researched[j].num = Len(tasks) + j
                 /\ Researched[j].den = Len(tasks)
                 /\ Researched[j].total = 3)
    /\ [][/\ \A i \in yielded' \ yielded :
                 /\ i = Head(ready)
                 /\ yielded' = yielded \cup {i}
                 /\ IF Hashable(tasks[i].subtopic)
                    THEN progress' = Append(progress, Event("Researched", tasks[i].subtopic,
                                                            Len(tasks) + completed_count + 1,
                                                            Len(tasks)))
                    ELSE progress' = progress /\ pc' = "unwind"
          /\ pc = "collect" =>
                 \A i \in DOMAIN tasks :
                     (Finished(i)' /\ ~Finished(i)) => ready' = Append(ready, i)
          /\ (pc = "as_completed" /\ pc' = "collect") =>
                 {ready'[j] : j \in 1..Len(ready')} = {i \in DOMAIN tasks : Finished(i)}]_vars

\* C15 witness: the loop took the futures of three distinct sub-topics in the
\* order 3, 1, 2 and has emitted their three events in that order, at
\* 1 + 1/3, 1 + 2/3 and 1 + 3/3.
C15_Witness ==
    /\ Len(tasks) = 3
    /\ KeysDistinct
    /\ Len(Researched) = 3
    /\ Researched[1].of = tasks[3].subtopic
    /\ Researched[2].of = tasks[1].subtopic
    /\ Researched[3].of = tasks[2].subtopic
    /\ Researched[1].num = 4
    /\ Researched[3].num = 6
    /\ pc = "report_synth"

\* C16 as stated: when the splitter returned [] the run makes no research
\* call, keeps the findings map empty, emits no progress event from the
\* research phase, calls the synthesizer once with the empty map and returns
\* its report.
C16_EmptyListRunsThrough ==
    (Terminated /\ outcomes.splitter = "returned" /\ subtopics = JList(<<>>)) =>
        /\ tasks = <<>>
        /\ research_findings = <<>>
        /\ \A j \in 1..Len(progress) :
               progress[j].message \notin {"Conducting research...", "Researched"}
        /\ synth_args = <<research_findings>>
        /\ pc = "returned"
        /\ final_report = "report"

\* the positions of run at which line 27 has been passed
AfterReportResearch ==
    pc \in {"submit", "as_completed", "collect", "unwind", "report_synth", "synthesize",
            "report_complete", "returned"}

\* C16 amended: when the splitter returned [] no research step is submitted,
\* the findings map stays empty and no per-sub-topic event is emitted, the one
\* event of the research phase being its announcement at 1 of 3; the
\* synthesizer is called at most once and with the empty map; the run returns
\* the synthesizer's report and the empty map when the synthesizer's call
\* returns and no progress callback raises, and otherwise ends with that
\* exception.
C16_EmptyList ==
    (outcomes.splitter = "returned" /\ subtopics = JList(<<>>)) =>
        /\ tasks = <<>>
        /\ research_findings = <<>>
        /\ Researched = <<>>
        /\ AfterReportResearch =>
               /\ Len(progress) >= 3
               /\ progress[3] = Event("Conducting research...", JNone, 1, 1)
        /\ synth_args \in {<<>>, << <<>> >>}
        /\ pc \in {"report_complete", "returned"} =>
               /\ synth_args = << <<>> >>
               /\ outcomes.synthesizer = "returned"
               /\ final_report = "report"
        /\ pc = "raised" => exc \in {"synthesizer", "callback"}
        /\ (pc = "raised" /\ exc = "synthesizer") => synth_args = << <<>> >>
        /\ ~Terminated => ENABLED Next

\* C16 witness: the body was "[]", and the run returned the report after one
\* synthesizer call with the empty map.
C16_Witness ==
    /\ pc = "returned"
    /\ content = <<"[", "]">>
    /\ subtopics = JList(<<>>)
    /\ synth_args = << <<>> >>
    /\ final_report = "report"
    /\ Len(progress) = 5

\* C17: the step values passed to report_progress never decrease, each lies
\* between 0 and 3 and comes with a total of 3, and the value 3 is passed only
\* by the last call, "Research complete!", after the synthesizer has returned.
C17_ProgressMonotone ==
    /\ \A j, l \in 1..Len(progress) :
           j < l => progress[j].num * progress[l].den <= progress[l].num * progress[j].den
    /\ \A j \in 1..Len(progress) :
           /\ progress[j].den > 0
           /\ 0 <= progress[j].num
           /\ progress[j].num <= 3 * progress[j].den
           /\ progress[j].total = 3
           /\ progress[j].num = 3 * progress[j].den =>
                  /\ j = Len(progress)
                  /\ progress[j].message = "Research complete!"
                  /\ outcomes.synthesizer = "returned"
                  /\ Len(synth_args) = 1

\* C17 witness: a run of three sub-topics, finished in the order 3, 2, 1, has
\* returned after the eight calls 0, 0.1, 1, 4/3, 5/3, 2, 2, 3.
C17_Witness ==
    /\ pc = "returned"
    /\ cb = "sink"
    /\ Len(tasks) = 3
    /\ Len(progress) = 8
    /\ progress[4].of = tasks[3].subtopic
    /\ progress[6].of = tasks[1].subtopic
    /\ progress[6].num = 6
    /\ progress[8].num = 3

\* the domains of a list of hits, and the first hit of a domain
DomainsOf(rs) == {Domain(rs[i].url) : i \in 1..Len(rs)}
FirstOfDomain(rs, d) ==
    rs[CHOOSE i \in 1..Len(rs) :
           /\ Domain(rs[i].url) = d
           /\ \A j \in 1..(i - 1) : Domain(rs[j].url) # d]

\* C12: the sources curate_sources returns hold at most one hit per domain,
\* the hit of a domain being the first one of that domain in the order the
\* provider returned them; there are at most top_n of them and at most as
\* many as there are distinct domains among the hits.
C12_FirstPerDomain ==
    pc = "curated" =>
        /\ \A i, j \in 1..Len(sources) :
               i # j => Domain(sources[i].url) # Domain(sources[j].url)
        /\ \A i \in 1..Len(sources) :
               /\ Domain(sources[i].url) \in DomainsOf(raw)
               /\ sources[i] = CuratedSource(query, FirstOfDomain(raw, Domain(sources[i].url)))
        /\ Len(sources) <= top_n
        /\ Len(sources) <= Cardinality(DomainsOf(raw))

\* C12 witness: of three hits the first two have the same domain and the
\* second scores higher than the first; two sources are returned, under a cap
\* of three.
C12_Witness ==
    /\ pc = "curated"
    /\ Len(raw) = 3
    /\ Domain(raw[1].url) = Domain(raw[2].url)
    /\ CuratedSource(query, raw[2]).score > CuratedSource(query, raw[1]).score
    /\ top_n = 3
    /\ Len(sources) = 2
    /\ \E i \in 1..2 : sources[i] = CuratedSource(query, raw[1])

\* the domain as C13 describes it: the host with a leading "www." stripped
StatedDomain(u) ==
    LET h == [i \in 1..Len(Netloc(u)) |-> LowerPiece(Netloc(u)[i])]
    IN  IF h # <<>> /\ Head(h) = "www." THEN Tail(h) ELSE h
\* the bonus as C13 describes it, in halves: 0.5 exactly when that domain
\* ends in ".edu" or ".gov"
StatedBonus(u) ==
    LET d == StatedDomain(u)
    IN  IF d # <<>> /\ d[Len(d)] \in {".edu", ".gov"} THEN 1 ELSE 0

\* C13: _score_item returns the number of distinct normalized query tokens
\* that occur in the normalized "title snippet" text, plus 0.5 exactly when
\* the host, without a leading "www.", ends in ".edu" or ".gov".
C13_ScoreAsStated ==
    pc = "scored" =>
        score = 2 * Hits(query, raw[1].title, raw[1].snippet) + StatedBonus(raw[1].url)

\* C11: in each flow, when the error of a missing credential is raised no
\* outbound search or LLM call of that flow has been made.
C11_ConfigErrorBeforeNetwork == exc \in ConfigErrors => net = NoCalls

====
